---------------------------- MODULE Spec2Model ----------------------------
(***************************************************************************)
(* Model of the navigation guard (safeNavigate, navigateToHome,            *)
(* navigateToTerminal) and of the security-header middleware with its      *)
(* route matcher.                                                          *)
(*                                                                         *)
(* The browser is the environment: window.location.pathname is the         *)
(* committed path; router.replace, router.push and window.location.assign  *)
(* start a navigation that the browser commits later (Commit), and each of *)
(* them either completes or throws synchronously.                          *)
(***************************************************************************)
EXTENDS Naturals, Sequences, FiniteSets

\* ------------------------------------------------------------------ bounds

\* Number of safeNavigate calls in one behaviour.
MaxCalls == 3

\* Number of requests served in one behaviour.
MaxRequests == 2

\* ------------------------------------------------------------------ state

VARIABLES
    hasWindow,      \* typeof window !== 'undefined'
    routerPresent,  \* window.__NEXT_ROUTER_PRESENT is truthy
    router,         \* window.__NEXT_ROUTER is truthy
    pathname,       \* window.location.pathname (committed)
    history,        \* session history entries, the last one is current
    pending,        \* navigation started and not yet committed
    last,           \* the last call of the guard: arguments, environment, outcome
    ncalls,         \* calls made so far
    nodeEnv,        \* process.env.NODE_ENV
    responses       \* responses sent so far: [path, headers]

vars == <<hasWindow, routerPresent, router, pathname, history, pending, last,
          ncalls, nodeEnv, responses>>

navVars == <<hasWindow, routerPresent, router, pathname, history, pending, last, ncalls>>
mwVars  == <<nodeEnv, responses>>

\* ------------------------------------------------------------------ navigation guard

\* Target paths: the wrappers' two literals, and a near-duplicate that differs
\* from one of them by a trailing slash only.
Paths == {"/", "/terminal-simple", "/terminal-simple/"}

NoPath == "<none>"
NoNav  == [op |-> "none", path |-> NoPath, useReplace |-> FALSE]
NoCall == [fn |-> "none", p |-> NoPath, useReplace |-> FALSE, from |-> NoPath,
           pend |-> NoPath, result |-> "none", invoked |-> <<>>, threw |-> FALSE]

\* The outcome of a call: it returned true, returned false, or an exception
\* reached the caller.
Results == {"true", "false", "threw"}

\* window.location.pathname === targetPath
SamePathNever(cur, target) == FALSE
SamePathOrPending(cur, target) == cur = target \/ pending.path = target
SamePath(cur, target) == cur = target

\* what the guard returns on the same-URL branch
SameUrlResult == "false"

\* (window as any).__NEXT_ROUTER_PRESENT, then if (router)
RouterAvailableHandleOnly(flag, handle) == handle
RouterAvailable(flag, handle) == flag /\ handle

\* if (useReplace) router.replace(...) else router.push(...)
RouterOpSwapped(useReplace) == IF useReplace THEN "push" ELSE "replace"
RouterOp(useReplace) == IF useReplace THEN "replace" ELSE "push"

\* the router branch: the operation is called outside any try, so if it throws
\* the exception reaches the caller; otherwise return true
RouterResult(opThrows) == IF opThrows THEN "threw" ELSE "true"

\* try { window.location.assign(targetPath); return true } catch { return false }
FallbackResultNoCatch(opThrows) == IF opThrows THEN "threw" ELSE "true"
FallbackResultAlwaysTrue(opThrows) == "true"
FallbackResult(opThrows) == IF opThrows THEN "false" ELSE "true"

\* safeNavigate(targetPath, useReplace), in the environment (win, cur, flag,
\* handle); opThrows says whether the navigation operation the call reaches
\* throws.  The value is the outcome and the operations invoked, in order.
safeNavigate(win, cur, flag, handle, targetPath, useReplace, opThrows) ==
    IF ~win THEN [result |-> "false", invoked |-> <<>>]
    ELSE IF SamePath(cur, targetPath)
         THEN [result |-> SameUrlResult, invoked |-> <<>>]
    ELSE IF RouterAvailable(flag, handle)
         THEN [result  |-> RouterResult(opThrows),
               invoked |-> <<[op |-> RouterOp(useReplace), path |-> targetPath]>>]
    ELSE [result  |-> FallbackResult(opThrows),
          invoked |-> <<[op |-> "assign", path |-> targetPath]>>]

\* The record of one call through the entry point fn, made in the current state.
CallRecord(fn, targetPath, useReplace, opThrows) ==
    LET r == safeNavigate(hasWindow, pathname, routerPresent, router,
                          targetPath, useReplace, opThrows)
    IN [fn |-> fn, p |-> targetPath, useReplace |-> useReplace,
        from |-> pathname, pend |-> pending.path,
        result |-> r.result, invoked |-> r.invoked,
        threw |-> (r.invoked # <<>> /\ opThrows)]

\* The navigation pending after a call: an operation that was invoked and did
\* not throw starts a navigation, which supersedes the one pending before.
PendingAfter(call) ==
    IF call.invoked # <<>> /\ ~call.threw
    THEN [op |-> call.invoked[Len(call.invoked)].op,
          path |-> call.invoked[Len(call.invoked)].path,
          useReplace |-> call.useReplace]
    ELSE pending

SafeNavigate ==
    \E p \in Paths, useReplace \in BOOLEAN, opThrows \in BOOLEAN :
        /\ ncalls < MaxCalls
        /\ last' = CallRecord("safeNavigate", p, useReplace, opThrows)
        /\ pending' = PendingAfter(last')
        /\ ncalls' = ncalls + 1
        /\ UNCHANGED <<hasWindow, routerPresent, router, pathname, history>>
        /\ UNCHANGED mwVars

\* navigateToHome() { return safeNavigate('/', true) }
NavigateToHome ==
    \E opThrows \in BOOLEAN :
        /\ ncalls < MaxCalls
        /\ last' = CallRecord("navigateToHome", "/", TRUE, opThrows)
        /\ pending' = PendingAfter(last')
        /\ ncalls' = ncalls + 1
        /\ UNCHANGED <<hasWindow, routerPresent, router, pathname, history>>
        /\ UNCHANGED mwVars

\* navigateToTerminal() { return safeNavigate('/terminal-simple', true) }
NavigateToTerminal ==
    \E opThrows \in BOOLEAN :
        /\ ncalls < MaxCalls
        /\ last' = CallRecord("navigateToTerminal", "/terminal-simple", TRUE, opThrows)
        /\ pending' = PendingAfter(last')
        /\ ncalls' = ncalls + 1
        /\ UNCHANGED <<hasWindow, routerPresent, router, pathname, history>>
        /\ UNCHANGED mwVars

\* The history entry written by a committed navigation: router.replace
\* overwrites the current entry, router.push and location.assign add one.
CommitHistory(h, nav) ==
    IF nav.op = "replace"
    THEN [h EXCEPT ![Len(h)] = nav.path]
    ELSE Append(h, nav.path)

\* The browser commits the pending navigation.
Commit ==
    /\ hasWindow
    /\ pending # NoNav
    /\ pathname' = pending.path
    /\ history' = CommitHistory(history, pending)
    /\ pending' = NoNav
    /\ UNCHANGED <<hasWindow, routerPresent, router, last, ncalls>>
    /\ UNCHANGED mwVars

\* ------------------------------------------------------------------ middleware

\* A request path and a pattern are sequences of characters.

\* Request paths: pages of the application, framework assets and files.
ReqRoot == <<"/">>
ReqTerminal == <<"/", "t", "e", "r", "m", "i", "n", "a", "l", "-", "s", "i", "m", "p", "l", "e">>
ReqApiHealth == <<"/", "a", "p", "i", "/", "h", "e", "a", "l", "t", "h", "/">>
ReqNextStatic == <<"/", "_", "n", "e", "x", "t", "/", "s", "t", "a", "t", "i", "c", "/", "a", ".", "j", "s">>
ReqNextImage == <<"/", "_", "n", "e", "x", "t", "/", "i", "m", "a", "g", "e">>
ReqNextData == <<"/", "_", "n", "e", "x", "t", "/", "d", "a", "t", "a", "/", "a", ".", "j", "s", "o", "n">>
ReqFavicon == <<"/", "f", "a", "v", "i", "c", "o", "n", ".", "i", "c", "o">>
ReqPublicFile == <<"/", "p", "u", "b", "l", "i", "c", "/", "a", ".", "p", "n", "g">>
ReqPublications == <<"/", "p", "u", "b", "l", "i", "c", "a", "t", "i", "o", "n", "s">>

RequestPaths ==
    {ReqRoot, ReqTerminal, ReqApiHealth, ReqNextStatic, ReqNextImage,
     ReqNextData, ReqFavicon, ReqPublicFile, ReqPublications}

\* The alternatives of the matcher's negative lookahead,
\* (?!_next/static|_next/image|favicon.ico|public); the dot of favicon.ico is
\* not escaped and stands for any character.
AltNextStatic == <<"_", "n", "e", "x", "t", "/", "s", "t", "a", "t", "i", "c">>
AltNextImage == <<"_", "n", "e", "x", "t", "/", "i", "m", "a", "g", "e">>
AltFavicon == <<"f", "a", "v", "i", "c", "o", "n", ".", "i", "c", "o">>
AltPublic == <<"p", "u", "b", "l", "i", "c">>

MatcherAlternatives == {AltNextStatic, AltNextImage, AltFavicon, AltPublic}

\* a pattern character matches a path character: any character for the dot
PatCharMatches(pc, c) == pc = "." \/ pc = c

\* the pattern matches at the first character of s (a lookahead: s may go on)
LookaheadMatches(pat, s) ==
    /\ Len(s) >= Len(pat)
    /\ \A i \in 1..Len(pat) : PatCharMatches(pat[i], s[i])

\* config.matcher, '/((?!_next/static|_next/image|favicon.ico|public).*)':
\* a slash, then at that place none of the alternatives, then anything
MatcherMatches(path) ==
    /\ Len(path) >= 1
    /\ path[1] = "/"
    /\ \A alt \in MatcherAlternatives : ~LookaheadMatches(alt, Tail(path))

XFrameOptions       == <<"X-Frame-Options", "SAMEORIGIN">>
XContentTypeOptions == <<"X-Content-Type-Options", "nosniff">>

\* middleware(request): the headers it sets on NextResponse.next()
middleware(env) ==
    IF env = "development"
    THEN {}
    ELSE {XFrameOptions, XContentTypeOptions}

\* A request for a path the matcher matches: the middleware runs.
RequestMatched ==
    \E path \in RequestPaths :
        /\ Len(responses) < MaxRequests
        /\ MatcherMatches(path)
        /\ responses' = Append(responses, [path |-> path, headers |-> middleware(nodeEnv)])
        /\ UNCHANGED nodeEnv
        /\ UNCHANGED navVars

\* A request for a path the matcher excludes: the middleware does not run.
RequestUnmatched ==
    \E path \in RequestPaths :
        /\ Len(responses) < MaxRequests
        /\ ~MatcherMatches(path)
        /\ responses' = Append(responses, [path |-> path, headers |-> {}])
        /\ UNCHANGED nodeEnv
        /\ UNCHANGED navVars

\* ------------------------------------------------------------------ specifications

NavInit ==
    /\ hasWindow \in BOOLEAN
    /\ IF hasWindow
       THEN /\ routerPresent \in BOOLEAN
            /\ router \in BOOLEAN
            /\ pathname \in Paths
            /\ history = <<pathname>>
       ELSE /\ routerPresent = FALSE
            /\ router = FALSE
            /\ pathname = NoPath
            /\ history = <<>>
    /\ pending = NoNav
    /\ last = NoCall
    /\ ncalls = 0

Init ==
    /\ NavInit
    /\ nodeEnv = "production"
    /\ responses = <<>>

Next ==
    \/ SafeNavigate
    \/ NavigateToHome
    \/ NavigateToTerminal
    \/ Commit

Spec == Init /\ [][Next]_vars


NodeEnvs == {"development", "production", "test"}

MwInit ==
    /\ hasWindow = FALSE
    /\ routerPresent = FALSE
    /\ router = FALSE
    /\ pathname = NoPath
    /\ history = <<>>
    /\ pending = NoNav
    /\ last = NoCall
    /\ ncalls = 0
    /\ nodeEnv \in NodeEnvs
    /\ responses = <<>>

MwNext ==
    \/ RequestMatched
    \/ RequestUnmatched

MwSpec == MwInit /\ [][MwNext]_vars

\* ------------------------------------------------------------------ properties

\* a call has been made; last describes it
Called == last.fn # "none"

\* the call was made with a window, for a path other than the committed one
Elsewhere == Called /\ hasWindow /\ last.p # last.from

\* the operations the last call invoked are exactly one op, with the target path
InvokedExactly(op) == last.invoked = <<[op |-> op, path |-> last.p]>>

RouterOps == {"replace", "push"}

\* C1: with a window, a call whose target is exactly the committed pathname
\* returns false and invokes none of router.replace, router.push and
\* window.location.assign, whatever useReplace and the router state are.
C1_SameUrlSkipped ==
    (Called /\ hasWindow /\ last.p = last.from)
        => (last.result = "false" /\ last.invoked = <<>>)

C1_Witness ==
    /\ Called /\ hasWindow /\ last.p = last.from
    /\ routerPresent /\ router /\ ~last.useReplace
    /\ last.result = "false"

\* C2 (as stated): for a path other than the current one, when a router handle
\* is present, the call invokes replace (useReplace) or push (otherwise)
\* exactly once, nothing else, and returns true.
C2_HandlePresentNavigates ==
    (Elsewhere /\ router)
        => (InvokedExactly(RouterOp(last.useReplace)) /\ last.result = "true")

\* C2 (amended): when the flag is set and the handle is present, the call
\* invokes replace (useReplace) or push (otherwise) exactly once and nothing
\* else; it returns true if that operation completes, and if it throws the
\* exception reaches the caller.
C2_RouterNavigates ==
    (Elsewhere /\ routerPresent /\ router)
        => /\ InvokedExactly(IF last.useReplace THEN "replace" ELSE "push")
           /\ last.result = (IF last.threw THEN "threw" ELSE "true")

C2_Witness ==
    /\ Elsewhere /\ routerPresent /\ router
    /\ ~last.useReplace /\ InvokedExactly("push") /\ last.result = "true"

\* C3: for a path other than the current one, with a window and no router
\* handle, the call invokes window.location.assign(p) exactly once and nothing
\* else; it returns true if assign completes and false if assign throws, and
\* no exception reaches the caller.
C3_FallbackAssign ==
    (Elsewhere /\ ~router)
        => /\ InvokedExactly("assign")
           /\ last.result = (IF last.threw THEN "false" ELSE "true")

C3_Witness ==
    /\ Elsewhere /\ ~router
    /\ InvokedExactly("assign") /\ last.threw /\ last.result = "false"

\* C4 (as stated): no call lets an exception reach the caller; every call
\* returns a boolean.
C4_NeverThrows == Called => last.result \in {"true", "false"}

\* C4 (amended): an exception reaches the caller only when the call invoked
\* router.replace or router.push and that operation threw; every other call
\* returns a boolean, also when window.location.assign throws.
C4_ThrowsOnlyFromRouter ==
    Called =>
        /\ last.result \in Results
        /\ (last.result = "threw")
              <=> (/\ last.threw
                   /\ Len(last.invoked) = 1
                   /\ last.invoked[1].op \in RouterOps)

C4_Witness ==
    /\ Called /\ last.threw /\ InvokedExactly("assign") /\ last.result = "false"

\* the step is the commit of a navigation
IsCommit == pending # NoNav /\ pending' = NoNav

\* C5: a navigation started by a call with useReplace = true leaves the
\* history length unchanged when it commits; one started with
\* useReplace = false adds exactly one entry.
C5_HistorySemantics ==
    [][IsCommit =>
          Len(history') = (IF pending.useReplace THEN Len(history)
                                                 ELSE Len(history) + 1)]_vars

\* C6 (as stated): a call that returns returns true if and only if it invoked
\* one of router.replace, router.push and window.location.assign, and it
\* invokes at most one of them.
C6_TrueIffAttempted ==
    (Called /\ last.result \in {"true", "false"})
        => /\ (last.result = "true") <=> (last.invoked # <<>>)
           /\ Len(last.invoked) <= 1

\* C6 (amended): a call returns true if and only if it invoked one of
\* router.replace, router.push and window.location.assign and that invocation
\* completed without throwing; it invokes at most one of them.
C6_TrueIffCompleted ==
    Called
        => /\ (last.result = "true") <=> (last.invoked # <<>> /\ ~last.threw)
           /\ Len(last.invoked) <= 1

C6_Witness ==
    /\ Called /\ last.invoked # <<>> /\ last.threw /\ last.result = "false"

\* C9: for a path other than the current one, when the flag is set and the
\* handle is missing, or the handle is registered and the flag is not set, no
\* router operation is invoked and the call invokes window.location.assign(p).
C9_FlagAndHandleNeeded ==
    (Elsewhere /\ (routerPresent # router))
        => InvokedExactly("assign")

C9_Witness ==
    /\ Elsewhere /\ router /\ ~routerPresent /\ InvokedExactly("assign")

\* the call was made while a router navigation to its own target was pending
Repeated == Elsewhere /\ routerPresent /\ router /\ last.pend = last.p

\* C10 (as stated): a call for a path whose router navigation is pending and
\* not yet committed invokes the router operation again and returns true;
\* a call for the committed path is suppressed and returns false.
C10_GuardSeesCommittedOnly ==
    /\ Repeated
          => (InvokedExactly(RouterOp(last.useReplace)) /\ last.result = "true")
    /\ (Called /\ hasWindow /\ last.p = last.from)
          => (last.invoked = <<>> /\ last.result = "false")

\* C10 (amended): a call for a path whose router navigation is pending and not
\* yet committed is not suppressed: it invokes the router operation again, and
\* returns true if that operation completes (if it throws, the exception
\* reaches the caller); a call for the committed path is suppressed and
\* returns false.
C10_PendingNotObserved ==
    /\ Repeated
          => /\ InvokedExactly(IF last.useReplace THEN "replace" ELSE "push")
             /\ last.result # "false"
             /\ ~last.threw => last.result = "true"
    /\ (Called /\ hasWindow /\ last.p = last.from)
          => (last.invoked = <<>> /\ last.result = "false")

C10_Witness ==
    /\ Repeated /\ pending.path = last.p /\ pathname # last.p
    /\ last.result = "true" /\ ncalls >= 2

\* a sequence of characters starts with the characters of prefix
HasPrefix(path, prefix) ==
    /\ Len(path) >= Len(prefix)
    /\ \A i \in 1..Len(prefix) : path[i] = prefix[i]

StaticDir == <<"/", "_", "n", "e", "x", "t", "/", "s", "t", "a", "t", "i", "c", "/">>
ImageDir  == <<"/", "_", "n", "e", "x", "t", "/", "i", "m", "a", "g", "e">>
PublicDir == <<"/", "p", "u", "b", "l", "i", "c", "/">>

\* the path of a static asset, or of the favicon
StaticAssetOrFavicon(path) ==
    \/ HasPrefix(path, StaticDir)
    \/ HasPrefix(path, ImageDir)
    \/ HasPrefix(path, PublicDir)
    \/ path = ReqFavicon

\* C8: outside development every response, except those for static assets
\* and the favicon, carries X-Frame-Options: SAMEORIGIN and
\* X-Content-Type-Options: nosniff; in development no response carries either.
C8_SecurityHeaders ==
    \A i \in 1..Len(responses) :
        /\ (nodeEnv # "development" /\ ~StaticAssetOrFavicon(responses[i].path))
              => {XFrameOptions, XContentTypeOptions} \subseteq responses[i].headers
        /\ nodeEnv = "development"
              => responses[i].headers \cap {XFrameOptions, XContentTypeOptions} = {}

=============================================================================
